---- MODULE Spec2Model ----
(***************************************************************************)
(* A model of adafruit_led_animation/animation.py.                         *)
(*                                                                         *)
(* Spec      an Animation (a ColorCycle) acting as timing leader of        *)
(*           NumPeers ColorCycle peers, driven by animate(), freeze(),     *)
(*           resume() and the color setter under a monotonic clock.        *)
(* SpecPoll  the same animation polled by animate() only (never paused).   *)
(* SpecComet the frame generator of a Comet.                               *)
(* SpecChase the frames of a Chase.                                        *)
(* SpecSparkle  the construction and the frames of a Sparkle.              *)
(* SpecGroup an AnimationGroup of Chase members.                           *)
(* SpecSeq   an AnimationSequence driven by activate(), next(), random()   *)
(*           and animate().                                                *)
(* SpecSeqPause  an AnimationSequence that is frozen and resumed as well.  *)
(*                                                                         *)
(* Time is counted in abstract clock units; monotonic_ns() reads `now`.    *)
(***************************************************************************)
EXTENDS Integers, Sequences, FiniteSets, TLC

VARIABLES
    now,                 \* the value monotonic_ns() returns
    speed_ns,            \* Animation._speed_ns
    paused,              \* Animation._paused
    next_update,         \* Animation._next_update
    time_left_at_pause,  \* Animation._time_left_at_pause
    colors,              \* ColorCycle.colors
    color,               \* Animation._color, per member (0 = leader)
    started,             \* per member: _color_generator has been entered
    index,               \* per member: local `index` of _color_generator
    pixels,              \* per member: what fill() last wrote to the buffer
    shown,               \* per member: what show() last presented
    cycles,              \* per member: number of _cycle_done() calls so far
    parity,              \* parity of the number of calls made on the leader
    op,                  \* the last method called on the leader
    arg,                 \* the argument of that call
    ret,                 \* its return value
    hooked,              \* number of _recompute_color() calls it made
    events,              \* the draw/fill/show calls it made, in order
    freeze_time,         \* the clock value read by the last freeze()
    last_frame,          \* the clock value read by the last fired animate()
    comet,               \* the state of a Comet and of its _comet_generator
    chase,               \* the state of a Chase
    sparkle,             \* the state of a Sparkle
    group,               \* the state of an AnimationGroup and of its members
    seq                  \* the state of an AnimationSequence and of its members

vars == <<now, speed_ns, paused, next_update, time_left_at_pause, colors,
          color, started, index, pixels, shown, cycles, parity, op, arg,
          ret, hooked, events, freeze_time, last_frame, comet, chase,
          sparkle, group, seq>>

\* the fields of the leader Animation of Spec
animState == <<speed_ns, paused, next_update, time_left_at_pause, colors,
               color, started, index, pixels, shown, cycles, arg, hooked,
               freeze_time, last_frame>>

(***************************************************************************)
(* Bounds                                                                  *)
(***************************************************************************)
MaxTime == 5
MaxInterval == 2
NumPeers == 1
MaxPixels == 3
MaxTail == 3
MaxSweeps == 3
MaxSize == 2
MaxSpacing == 2
MaxSparkles == 2
MaxSparklePixels == 4
NumMembers == 2
GroupMaxTime == 3
MaxFrames == 3
MaxSeqMembers == 2
SeqMaxTime == 3
MaxAdvance == 2

Members == 0..NumPeers
Peers == 1..NumPeers

Max(a, b) == IF a > b THEN a ELSE b
Min(a, b) == IF a < b THEN a ELSE b

(***************************************************************************)
(* Color values.  Python code passes a color either as an (r, g, b) tuple  *)
(* or as a packed int; the two never compare equal.                        *)
(***************************************************************************)
None == [kind |-> "none", v |-> <<>>]
Rgb(r, g, b) == [kind |-> "rgb", v |-> <<r, g, b>>]
Packed(n) == [kind |-> "int", v |-> <<n>>]

\* Python's ==  on None, ints and tuples
PyEq(a, b) == a.kind = b.kind /\ a.v = b.v

\* isinstance(color, int) and the unpacking of a packed int
Normalize(c) ==
    IF c.kind = "int"
    THEN Rgb((c.v[1] \div 65536) % 256, (c.v[1] \div 256) % 256, c.v[1] % 256)
    ELSE c

IsRgbTriple(c) ==
    /\ c.kind = "rgb"
    /\ Len(c.v) = 3
    /\ \A k \in 1..3 : c.v[k] \in 0..255

\* The colors the callers of this model pass in
ColorInputs ==
    { Rgb(255, 0, 0), Rgb(0, 255, 0), Packed(255 * 65536), Packed(255 * 256) }

\* The color lists a ColorCycle is constructed with
ColorLists ==
    { << Rgb(255, 0, 0), Rgb(0, 255, 0), Rgb(0, 0, 255) >>,
      << Packed(255 * 65536), Packed(255 * 256) >>,
      << Rgb(255, 0, 0) >> }

(***************************************************************************)
(* Animation: the frame gate, the deadline and the pause bookkeeping       *)
(***************************************************************************)
\* a gate that forgets the pause flag
GateIgnoringPause(p, t, deadline) == ~(t < deadline)

\* animate() goes on to draw: not paused and the deadline has been reached
Gate(p, t, deadline) == ~p /\ ~(t < deadline)

\* a deadline stepped from the previous deadline instead of the call time
NextDeadlineFromDeadline(t, deadline, interval) == deadline + interval

\* a deadline that forgets the interval
NextDeadlineNoInterval(t, deadline, interval) == t

\* the deadline animate() stores after a fired frame
NextDeadline(t, deadline, interval) == t + interval

\* an offset that is not clamped at zero
TimeLeftUnclamped(t, deadline) == t - deadline

\* the offset freeze() stores
TimeLeft(t, deadline) == Max(0, t - deadline)

\* the deadline resume() stores
ResumeDeadline(t, left) == t + left

(***************************************************************************)
(* ColorCycle: one step of _color_generator for member i                   *)
(***************************************************************************)
GenIndex(i) == IF ~started[i] THEN 0 ELSE (index[i] + 1) % Len(colors)

\* the test that guards _cycle_done(), made on the index already reduced
GenCycleDone(i) == started[i] /\ GenIndex(i) = Len(colors)

Ev(c, i) == [call |-> c, who |-> i]

\* ColorCycle.draw(): next(generator), fill(self.color), show()
DrawEvents(i) == << Ev("draw", i), Ev("fill", i), Ev("show", i) >>

RECURSIVE PeerDraws(_)
PeerDraws(k) == IF k > NumPeers THEN <<>> ELSE DrawEvents(k) \o PeerDraws(k + 1)

RECURSIVE PeerShows(_)
PeerShows(k) == IF k > NumPeers THEN <<>> ELSE << Ev("show", k) >> \o PeerShows(k + 1)

\* the record of the last call on the leader
callState == <<parity, op, ret, events>>

\* the leader of Spec as left by its constructor, for the specifications
\* that are about another object
LeaderIdle ==
    /\ now = 0
    /\ speed_ns = 1
    /\ paused = FALSE
    /\ next_update = 0
    /\ time_left_at_pause = 0
    /\ colors = << Rgb(255, 0, 0) >>
    /\ color = [i \in Members |-> Rgb(255, 0, 0)]
    /\ started = [i \in Members |-> FALSE]
    /\ index = [i \in Members |-> 0]
    /\ pixels = [i \in Members |-> None]
    /\ shown = [i \in Members |-> None]
    /\ cycles = [i \in Members |-> 0]
    /\ parity = 0
    /\ op = "init"
    /\ arg = None
    /\ ret = "None"
    /\ hooked = 1
    /\ events = <<>>
    /\ freeze_time = -1
    /\ last_frame = -1

NoComet == [made |-> FALSE]
NoChase == [made |-> FALSE]
NoSparkle == [made |-> FALSE]
NoGroup == [made |-> FALSE]
NoSeq == [made |-> FALSE]

(***************************************************************************)
(* Construction: ColorCycle(pixel_object, speed, colors) for every member, *)
(* at clock value 0; the leader's peers are members 1..NumPeers.           *)
(***************************************************************************)
Init ==
    /\ now = 0
    /\ speed_ns \in 1..MaxInterval
    /\ paused = FALSE
    /\ next_update = 0
    /\ time_left_at_pause = 0
    /\ colors \in ColorLists
    /\ color = [i \in Members |-> Normalize(colors[1])]
    /\ started = [i \in Members |-> FALSE]
    /\ index = [i \in Members |-> 0]
    /\ pixels = [i \in Members |-> None]
    /\ shown = [i \in Members |-> None]
    /\ cycles = [i \in Members |-> 0]
    /\ parity = 0
    /\ op = "init"
    /\ arg = None
    /\ ret = "None"
    /\ hooked = 1
    /\ events = <<>>
    /\ freeze_time = -1
    /\ last_frame = -1
    /\ comet = NoComet
    /\ chase = NoChase
    /\ sparkle = NoSparkle
    /\ group = NoGroup
    /\ seq = NoSeq

\* the clock advances between calls
Tick ==
    /\ now < MaxTime
    /\ now' = now + 1
    /\ UNCHANGED <<speed_ns, paused, next_update, time_left_at_pause, colors,
                   color, started, index, pixels, shown, cycles, parity, op,
                   arg, ret, hooked, events, freeze_time, last_frame, comet, chase,
                   sparkle, group, seq>>

\* Animation.animate() on the leader
Animate ==
    /\ parity' = 1 - parity
    /\ op' = "animate"
    /\ arg' = None
    /\ hooked' = 0
    /\ IF ~Gate(paused, now, next_update)
       THEN /\ ret' = "False"
            /\ events' = <<>>
            /\ UNCHANGED <<next_update, color, started, index, pixels, shown,
                           cycles, last_frame>>
       ELSE /\ ret' = "True"
            /\ events' = DrawEvents(0) \o PeerDraws(1)
                           \o << Ev("show", 0) >> \o PeerShows(1)
            /\ started' = [i \in Members |-> TRUE]
            /\ index' = [i \in Members |-> GenIndex(i)]
            /\ color' = [i \in Members |-> colors[GenIndex(i) + 1]]
            /\ pixels' = [i \in Members |-> colors[GenIndex(i) + 1]]
            /\ shown' = [i \in Members |-> colors[GenIndex(i) + 1]]
            /\ cycles' = [i \in Members |->
                            IF GenCycleDone(i) THEN cycles[i] + 1 ELSE cycles[i]]
            /\ next_update' = NextDeadline(now, next_update, speed_ns)
            /\ last_frame' = now
    /\ UNCHANGED <<now, speed_ns, paused, time_left_at_pause, colors,
                   freeze_time, comet, chase,
                   sparkle, group, seq>>

\* Animation.freeze() on the leader
Freeze ==
    /\ parity' = 1 - parity
    /\ op' = "freeze"
    /\ arg' = None
    /\ ret' = "None"
    /\ hooked' = 0
    /\ events' = <<>>
    /\ paused' = TRUE
    /\ time_left_at_pause' = TimeLeft(now, next_update)
    /\ freeze_time' = now
    /\ UNCHANGED <<now, speed_ns, next_update, colors, color, started, index,
                   pixels, shown, cycles, last_frame, comet, chase,
                   sparkle, group, seq>>

\* Animation.resume() on the leader
Resume ==
    /\ parity' = 1 - parity
    /\ op' = "resume"
    /\ arg' = None
    /\ ret' = "None"
    /\ hooked' = 0
    /\ events' = <<>>
    /\ next_update' = ResumeDeadline(now, time_left_at_pause)
    /\ time_left_at_pause' = 0
    /\ paused' = FALSE
    /\ UNCHANGED <<now, speed_ns, colors, color, started, index, pixels,
                   shown, cycles, freeze_time, last_frame, comet, chase,
                   sparkle, group, seq>>

\* the color setter on the leader, called with value c
SetColor(c) ==
    /\ parity' = 1 - parity
    /\ op' = "set_color"
    /\ arg' = c
    /\ ret' = "None"
    /\ events' = <<>>
    /\ IF PyEq(color[0], c)
       THEN /\ hooked' = 0
            /\ UNCHANGED color
       ELSE /\ color' = [color EXCEPT ![0] = Normalize(c)]
            /\ hooked' = 1
    /\ UNCHANGED <<now, speed_ns, paused, next_update, time_left_at_pause,
                   colors, started, index, pixels, shown, cycles,
                   freeze_time, last_frame, comet, chase,
                   sparkle, group, seq>>

SetAnyColor == \E c \in ColorInputs : SetColor(c)

Next == Tick \/ Animate \/ Freeze \/ Resume \/ SetAnyColor

Spec == Init /\ [][Next]_vars

\* the leader polled by animate() only: it is never paused
NextPoll == Tick \/ Animate \/ SetAnyColor

SpecPoll == Init /\ [][NextPoll]_vars

(***************************************************************************)
(* Properties of Animation and ColorCycle                                  *)
(***************************************************************************)
\* a step that is a call of method m on the leader
Call(m) == parity' # parity /\ op' = m

\* a step that is a call of animate() which fired a frame
Fired == Call("animate") /\ ret' = "True"

DrawsOf(log, i) == { k \in DOMAIN log : log[k] = Ev("draw", i) }

\* C1: animate() called while paused, or before the deadline, returns False
\* and changes nothing: no draw, no pixel write, no show, and the deadline,
\* the color and the pause state keep their values.
C1_GatedAnimateChangesNothing ==
    [][ (Call("animate") /\ (paused \/ now < next_update))
          => /\ ret' = "False"
             /\ events' = <<>>
             /\ UNCHANGED <<next_update, color, paused, time_left_at_pause,
                            started, index, pixels, shown, cycles>> ]_vars

C1_Witness ==
    /\ op = "animate" /\ ret = "False"
    /\ started[0]
    /\ (paused \/ now < next_update)
    /\ now >= next_update => paused

\* C2 as claimed: a fired animate() moves the deadline to the previous
\* deadline plus the interval, also when it is called late.
C2_DeadlinePlusInterval ==
    [][ (Call("animate") /\ ~paused /\ now >= next_update)
          => /\ ret' = "True"
             /\ next_update' = next_update + speed_ns ]_vars

\* C2 amended: a fired animate() returns True and moves the deadline to the
\* clock value of the call plus the interval.
C2_DeadlineIsCallTimePlusInterval ==
    [][ (Call("animate") /\ ~paused /\ now >= next_update)
          => /\ ret' = "True"
             /\ next_update' = now + speed_ns ]_vars

\* a frame fired later than its deadline
C2_Witness ==
    /\ op = "animate" /\ ret = "True"
    /\ last_frame = now
    /\ next_update = now + speed_ns
    /\ freeze_time = -1
    /\ speed_ns = 2 /\ now = 3

\* C3 as claimed: in a fired animate() the leader's draw precedes every
\* peer's draw, and every draw precedes every show.
C3_DrawsBeforeShows ==
    (op = "animate" /\ ret = "True")
      => \A a, b \in DOMAIN events :
            /\ (events[a] = Ev("draw", 0) /\ events[b].call = "draw"
                  /\ events[b].who # 0) => a < b
            /\ (events[a].call = "draw" /\ events[b].call = "show") => a < b

\* C4 as claimed: the same value assigned twice in succession runs the
\* recomputation hook at most once, so not in the second assignment when the
\* first one ran it.
C4_SetColorIdempotent ==
    [][ (Call("set_color") /\ op = "set_color" /\ PyEq(arg', arg)
            /\ hooked = 1)
          => hooked' = 0 ]_vars

\* C5 as claimed: the color of every animation is always an RGB triple.
C5_ColorIsTriple == \A i \in Members : IsRgbTriple(color[i])

\* C6 as claimed: every fired frame shows the next color of the list, and
\* _cycle_done() is called once each time the index wraps to zero.
C6_CycleDoneOnWrap ==
    [][ Fired
          => /\ index'[0] = (IF started[0] THEN (index[0] + 1) % Len(colors) ELSE 0)
             /\ shown'[0] = colors[index'[0] + 1]
             /\ cycles'[0] = cycles[0]
                   + (IF started[0] /\ index'[0] = 0 THEN 1 ELSE 0) ]_vars

\* C7: freeze() sets paused and stores max(0, now - deadline), never a
\* negative value; resume() sets the deadline to now plus the stored
\* offset, zeroes the offset and clears paused.
C7_FreezeResume ==
    [][ /\ Call("freeze")
          => /\ paused'
             /\ time_left_at_pause' = Max(0, now - next_update)
             /\ time_left_at_pause' >= 0
             /\ next_update' = next_update
        /\ Call("resume")
          => /\ next_update' = now + time_left_at_pause
             /\ time_left_at_pause' = 0
             /\ ~paused' ]_vars

\* frozen one unit before the deadline, resumed three units later
C7_Witness ==
    /\ op = "resume" /\ ~paused
    /\ speed_ns = 2 /\ last_frame = 0
    /\ freeze_time = 1
    /\ now = 4 /\ next_update = 4
    /\ time_left_at_pause = 0

\* C8 as claimed: a resume() that directly follows a freeze() pushes the
\* deadline out by exactly the paused duration and never moves it earlier.
C8_ResumePushesDeadline ==
    [][ (Call("resume") /\ op = "freeze")
          => /\ next_update' = next_update + (now - freeze_time)
             /\ next_update' >= next_update ]_vars

\* C9: polled at any non-decreasing clock values, an unpaused animation
\* fires exactly one frame in every animate() made at or after the deadline,
\* and two consecutive fired frames are at least one interval apart.
C9_OneFramePerInterval ==
    [][ /\ (Call("animate") /\ now >= next_update)
          => /\ ret' = "True"
             /\ Cardinality(DrawsOf(events', 0)) = 1
        /\ (Fired /\ last_frame >= 0) => now - last_frame >= speed_ns
        /\ (Call("animate") /\ now < next_update) => ret' = "False" ]_vars

\* a second frame, fired later than one interval after the first
C9_Witness ==
    /\ op = "animate" /\ ret = "True"
    /\ last_frame = now
    /\ index[0] = 1
    /\ speed_ns = 1 /\ now = 3

(***************************************************************************)
(* Comet.  `comet` holds the object's fields and the local variables of    *)
(* its suspended _comet_generator:                                         *)
(*   num_pixels   len(pixel_object)                                        *)
(*   tail_length  the constructor argument                                 *)
(*   tail         Comet._tail_length                                       *)
(*   reverse, bounce                                                       *)
(*   pc           "new" before the first next(), then "sweep"              *)
(*   first, last, step   the range object the for loop iterates            *)
(*   start        the loop variable                                        *)
(*   passes       cycle_passes                                             *)
(*   positions    frames rendered so far by the current for loop           *)
(*   write        the slice assignment of the last frame                   *)
(*   done         _cycle_done() calls made by the last draw()              *)
(*   sweeps       for loops this generator has run to their end            *)
(*   dones        _cycle_done() calls this generator has made              *)
(***************************************************************************)
\* a range that starts one position later, at minus the tail_length argument
CometRangeShort(num_pixels, tail, reverse) ==
    IF reverse
    THEN [first |-> num_pixels, last |-> -(tail - 1), step |-> -1]
    ELSE [first |-> -(tail - 1), last |-> num_pixels, step |-> 1]

\* Comet._get_range
CometRange(num_pixels, tail, reverse) ==
    IF reverse
    THEN [first |-> num_pixels, last |-> -tail, step |-> -1]
    ELSE [first |-> -tail, last |-> num_pixels, step |-> 1]

\* the body of the for loop: which slice is assigned, from which part of
\* the color table, for window start s
CometWrite(num_pixels, tail, reverse, s) ==
    LET end == IF s + tail < num_pixels THEN tail ELSE num_pixels - s
        num_visible == tail + s
    IN  IF s <= 0
        THEN [lo |-> 0, hi |-> num_visible, from |-> tail - num_visible,
              n |-> num_visible, reversed |-> reverse]
        ELSE [lo |-> s, hi |-> s + end, from |-> 0,
              n |-> end, reversed |-> reverse]

\* Comet(pixel_object, speed, color, tail_length, reverse, bounce)
NewComet(num_pixels, tail_length, reverse, bounce) ==
    [made |-> TRUE, num_pixels |-> num_pixels, tail_length |-> tail_length,
     tail |-> tail_length + 1, reverse |-> reverse, bounce |-> bounce,
     pc |-> "new", first |-> 0, last |-> 0, step |-> 0, start |-> 0,
     passes |-> 0, positions |-> 0,
     write |-> [lo |-> 0, hi |-> 0, from |-> 0, n |-> 0, reversed |-> reverse],
     done |-> 0, sweeps |-> 0, dones |-> 0]

\* the generator enters the for loop and renders its first frame
BeginSweep(c) ==
    LET r == CometRange(c.num_pixels, c.tail, c.reverse)
    IN  [c EXCEPT !.pc = "sweep", !.first = r.first, !.last = r.last,
                  !.step = r.step, !.start = r.first, !.positions = 1,
                  !.write = CometWrite(c.num_pixels, c.tail, c.reverse, r.first)]

\* code after the for loop that signals the cycle after every pass
EndSweepEveryPass(c) ==
    LET reverse == IF c.bounce THEN ~c.reverse ELSE c.reverse
    IN  [c EXCEPT !.reverse = reverse,
                  !.passes = 0,
                  !.done = 1,
                  !.sweeps = c.sweeps + 1,
                  !.dones = c.dones + 1]

\* the code after the for loop
EndSweep(c) ==
    LET passes == c.passes + 1
        reverse == IF c.bounce THEN ~c.reverse ELSE c.reverse
        cycle == ~c.bounce \/ passes = 2
    IN  [c EXCEPT !.reverse = reverse,
                  !.passes = IF cycle THEN 0 ELSE passes,
                  !.done = IF cycle THEN 1 ELSE 0,
                  !.sweeps = c.sweeps + 1,
                  !.dones = IF cycle THEN c.dones + 1 ELSE c.dones]

InitComet ==
    /\ comet \in { NewComet(n, t, r, b) :
                     n \in 1..MaxPixels, t \in 1..MaxTail,
                     r \in BOOLEAN, b \in BOOLEAN }
    /\ now = 0
    /\ speed_ns = 1
    /\ paused = FALSE
    /\ next_update = 0
    /\ time_left_at_pause = 0
    /\ colors = << Rgb(255, 0, 0) >>
    /\ color = [i \in Members |-> Rgb(255, 0, 0)]
    /\ started = [i \in Members |-> FALSE]
    /\ index = [i \in Members |-> 0]
    /\ pixels = [i \in Members |-> None]
    /\ shown = [i \in Members |-> None]
    /\ cycles = [i \in Members |-> 0]
    /\ parity = 0
    /\ op = "init"
    /\ arg = None
    /\ ret = "None"
    /\ hooked = 0
    /\ events = <<>>
    /\ freeze_time = -1
    /\ last_frame = -1
    /\ chase = NoChase
    /\ sparkle = NoSparkle
    /\ group = NoGroup
    /\ seq = NoSeq

\* Comet.draw(): next(self._generator)
CometDraw ==
    /\ comet.made
    /\ (comet.pc = "sweep" /\ comet.start = comet.last) => comet.sweeps < MaxSweeps
    /\ comet' =
         IF comet.pc = "new"
         THEN BeginSweep([comet EXCEPT !.done = 0])
         ELSE IF comet.start # comet.last
         THEN [comet EXCEPT
                 !.start = comet.start + comet.step,
                 !.positions = comet.positions + 1,
                 !.write = CometWrite(comet.num_pixels, comet.tail,
                                      comet.write.reversed,
                                      comet.start + comet.step),
                 !.done = 0]
         ELSE BeginSweep(EndSweep(comet))
    /\ op' = "draw"
    /\ UNCHANGED <<now, speed_ns, paused, next_update, time_left_at_pause,
                   colors, color, started, index, pixels, shown, cycles,
                   parity, arg, ret, hooked, events, freeze_time, last_frame,
                   chase, sparkle, group, seq>>

\* Comet.reset(): a fresh generator; the fields of the object stay
CometReset ==
    /\ comet.made
    /\ comet' = [comet EXCEPT !.pc = "new", !.passes = 0,
                               !.sweeps = 0, !.dones = 0]
    /\ op' = "reset"
    /\ UNCHANGED <<now, speed_ns, paused, next_update, time_left_at_pause,
                   colors, color, started, index, pixels, shown, cycles,
                   parity, arg, ret, hooked, events, freeze_time, last_frame,
                   chase, sparkle, group, seq>>

NextComet == CometDraw \/ CometReset

SpecComet == InitComet /\ [][NextComet]_vars

\* the for loop has rendered the frame of the last window start of its range
SweepComplete == comet.pc = "sweep" /\ comet.start = comet.last

\* C10 as claimed: a sweep has exactly L + T + 1 frames, the window start
\* running over -T..L, forward or reversed.
C10_SweepHasLPlusTPlus1Frames ==
    comet.pc = "sweep"
      => /\ comet.start \in -comet.tail_length .. comet.num_pixels
         /\ SweepComplete
              => comet.positions = comet.num_pixels + comet.tail_length + 1

\* C10 amended: a sweep has exactly L + T + 2 frames, the window start
\* running from -(T + 1) to L inclusive when forward and from L down to
\* -(T + 1) when reversed, one position per frame.
C10_SweepHasLPlusTPlus2Frames ==
    comet.pc = "sweep"
      => /\ comet.start \in -(comet.tail_length + 1) .. comet.num_pixels
         /\ comet.positions =
              (IF comet.step = 1
               THEN comet.start + comet.tail_length + 1
               ELSE comet.num_pixels - comet.start) + 1
         /\ SweepComplete
              => /\ comet.positions = comet.num_pixels + comet.tail_length + 2
                 /\ comet.start = (IF comet.step = 1 THEN comet.num_pixels
                                   ELSE -(comet.tail_length + 1))

\* a reversed sweep that has rendered its last frame
C10_Witness ==
    /\ SweepComplete
    /\ comet.step = -1
    /\ comet.num_pixels = 3 /\ comet.tail_length = 2
    /\ comet.positions = 7

\* C11: without bounce a Comet signals cycle-done after every completed
\* sweep; with bounce the direction flips after each completed sweep and
\* cycle-done is signalled once per two completed sweeps, never after an
\* odd number of them.
C11_CycleDonePerSweepOrPair ==
    /\ [](comet.dones = IF comet.bounce THEN comet.sweeps \div 2
                        ELSE comet.sweeps)
    /\ [][ comet'.sweeps = comet.sweeps + 1
             => /\ comet'.reverse = (IF comet.bounce THEN ~comet.reverse
                                     ELSE comet.reverse)
                /\ comet'.done = (IF comet.bounce /\ comet'.sweeps % 2 = 1
                                  THEN 0 ELSE 1) ]_vars

\* a bouncing comet after its third sweep: one cycle signalled, not two
C11_Witness ==
    /\ comet.bounce
    /\ comet.sweeps = 3
    /\ comet.dones = 1
    /\ comet.pc = "sweep"

(***************************************************************************)
(* Chase.  `chase` holds the object's fields:                              *)
(*   num_pixels, size, spacing, repeat_width, direction, reverse, n        *)
(*   reverse0     the constructor's `reverse`, captured by _resetter       *)
(*   lit          the pixels the last draw() set to the group color        *)
(*   done         _cycle_done() calls made by the last draw()              *)
(*   n0, draws, dones   the value of n, and the draw() and _cycle_done()   *)
(*                calls made, since the object was last constructed,       *)
(*                reset or given a direction                               *)
(***************************************************************************)
\* Chase(pixel_object, speed, color, size, spacing, reverse)
NewChase(num_pixels, size, spacing, reverse) ==
    [made |-> TRUE, num_pixels |-> num_pixels, size |-> size,
     spacing |-> spacing, repeat_width |-> size + spacing,
     direction |-> IF ~reverse THEN 1 ELSE -1, reverse |-> reverse,
     reverse0 |-> reverse, n |-> 0, lit |-> {}, done |-> 0,
     n0 |-> 0, draws |-> 0, dones |-> 0]

\* the pixels of the slice  n :: repeat_width
Stride(num_pixels, n, repeat_width) ==
    { p \in 0..(num_pixels - 1) : p >= n /\ (p - n) % repeat_width = 0 }

\* the pixels the for loop of draw() assigns
ChaseLit(c) ==
    UNION { Stride(c.num_pixels, (c.n + i) % c.repeat_width, c.repeat_width) :
              i \in 0..(c.size - 1) }

\* the phase draw() moves to
ChaseStep(n, direction, repeat_width) == (n + direction) % repeat_width

\* the test that guards _cycle_done() in draw()
ChaseWrapped(new, old) == new < old

InitChase ==
    /\ chase \in { NewChase(l, sz, sp, r) :
                     l \in 1..MaxPixels, sz \in 1..MaxSize,
                     sp \in 0..MaxSpacing, r \in BOOLEAN }
    /\ LeaderIdle
    /\ comet = NoComet
    /\ sparkle = NoSparkle
    /\ group = NoGroup
    /\ seq = NoSeq

\* Chase.draw(), up to repeat_width calls in a row
ChaseDraw ==
    /\ chase.made
    /\ chase.draws < chase.repeat_width
    /\ LET new == ChaseStep(chase.n, chase.direction, chase.repeat_width)
           wrapped == ChaseWrapped(new, chase.n)
       IN  chase' = [chase EXCEPT
                       !.lit = ChaseLit(chase),
                       !.n = new,
                       !.done = IF wrapped THEN 1 ELSE 0,
                       !.draws = chase.draws + 1,
                       !.dones = IF wrapped THEN chase.dones + 1
                                 ELSE chase.dones]
    /\ UNCHANGED <<now, animState, callState, comet, sparkle, group, seq>>

\* the reverse setter
ChaseSetReverse(value) ==
    /\ chase.made
    /\ chase' = [chase EXCEPT !.reverse = value,
                              !.direction = IF value THEN -1 ELSE 1,
                              !.n0 = chase.n, !.draws = 0, !.dones = 0]
    /\ UNCHANGED <<now, animState, callState, comet, sparkle, group, seq>>

ChaseSetAnyReverse == \E value \in BOOLEAN : ChaseSetReverse(value)

\* Chase.reset(): the closure _resetter
ChaseReset ==
    /\ chase.made
    /\ chase' = [chase EXCEPT !.n = 0, !.reverse = chase.reverse0,
                              !.direction = IF ~chase.reverse0 THEN 1 ELSE -1,
                              !.n0 = 0, !.draws = 0, !.dones = 0]
    /\ UNCHANGED <<now, animState, callState, comet, sparkle, group, seq>>

NextChase == ChaseDraw \/ ChaseSetAnyReverse \/ ChaseReset

SpecChase == InitChase /\ [][NextChase]_vars

\* C12 as claimed: repeat_width consecutive draw() calls bring n back to its
\* value before the first of them and call _cycle_done() exactly once, in
\* either direction.
C12_OneCycleDonePerRepeatWidth ==
    chase.draws = chase.repeat_width
      => /\ chase.n = chase.n0
         /\ chase.dones = 1

(***************************************************************************)
(* Sparkle.  `sparkle` holds the constructor's arguments and, once it has  *)
(* run, the object's fields and its pixel buffer:                          *)
(*   pc           "args" before the constructor runs, then "made", or      *)
(*                "failed" when it raised                                  *)
(*   fault        the exception the last call raised                       *)
(*   num_pixels   len(pixel_object)                                        *)
(*   num_sparkles, color, half_color, dim_color                            *)
(*   buf          the pixel buffer, pixel p at buf[p + 1]                  *)
(*   chosen       the list `pixels` of the last draw()                     *)
(*   written      the pixel indices the last draw() assigned to            *)
(* Colors are (r, g, b) tuples; <<>> stands for None.                      *)
(***************************************************************************)
Black == <<0, 0, 0>>

\* the colors a Sparkle is given
SparkleColors == { <<255, 0, 0>>, <<0, 255, 40>> }

\* a length test that lets a one-pixel buffer pass
SparkleTooShortBelowOne(num_pixels) == num_pixels < 1

\* the length test of Sparkle.__init__
SparkleTooShort(num_pixels) == num_pixels < 2

\* a range of choices that reaches the last pixel
SparkleChoicesToLast(num_pixels) == 0..(num_pixels - 1)

\* the values random.randint(0, len(pixel_object) - 2) can return
SparkleChoices(num_pixels) == 0..(num_pixels - 2)

Scaled(c, d) == [k \in 1..Len(c) |-> c[k] \div d]

\* Sparkle._recompute_color: the buffer after the shades were rewritten
Reshade(buf, old_half, old_dim, new_half, new_dim) ==
    [p \in 1..Len(buf) |->
        IF buf[p] = old_half THEN new_half
        ELSE IF buf[p] = old_dim THEN new_dim
        ELSE buf[p]]

\* the second loop of draw(): half_color at each chosen pixel, dim_color at
\* the pixel after it, in list order; an index outside the buffer is left out
RECURSIVE Fade(_, _, _, _, _)
Fade(buf, chosen, k, half, dim) ==
    IF k > Len(chosen) THEN buf
    ELSE LET p == chosen[k]
             b1 == IF p + 1 \in DOMAIN buf THEN [buf EXCEPT ![p + 1] = half]
                   ELSE buf
             b2 == IF p + 2 \in DOMAIN b1 THEN [b1 EXCEPT ![p + 2] = dim]
                   ELSE b1
         IN  Fade(b2, chosen, k + 1, half, dim)

SparkleArgs(num_pixels, num_sparkles, c) ==
    [pc |-> "args", fault |-> "none", num_pixels |-> num_pixels,
     num_sparkles |-> num_sparkles, color |-> c, half_color |-> <<>>,
     dim_color |-> <<>>, buf |-> [p \in 1..num_pixels |-> Black],
     chosen |-> <<>>, written |-> {}]

InitSparkle ==
    /\ sparkle \in { SparkleArgs(l, k, c) :
                       l \in 0..MaxSparklePixels, k \in 1..MaxSparkles,
                       c \in SparkleColors }
    /\ LeaderIdle
    /\ comet = NoComet
    /\ chase = NoChase
    /\ group = NoGroup
    /\ seq = NoSeq

\* Sparkle(pixel_object, speed, color, num_sparkles)
SparkleNew ==
    /\ sparkle.pc = "args"
    /\ sparkle' =
         IF SparkleTooShort(sparkle.num_pixels)
         THEN [sparkle EXCEPT !.pc = "failed", !.fault = "ValueError"]
         ELSE [sparkle EXCEPT
                 !.pc = "made",
                 !.half_color = Scaled(sparkle.color, 4),
                 !.dim_color = Scaled(sparkle.color, 10),
                 !.buf = Reshade(sparkle.buf, <<>>, <<>>,
                                 Scaled(sparkle.color, 4),
                                 Scaled(sparkle.color, 10))]
    /\ UNCHANGED <<now, animState, callState, comet, chase, group, seq>>

\* the color setter of a Sparkle, called with the tuple c
SparkleSetColor(c) ==
    /\ sparkle.pc = "made"
    /\ sparkle' =
         IF sparkle.color = c
         THEN [sparkle EXCEPT !.fault = "none"]
         ELSE [sparkle EXCEPT
                 !.fault = "none",
                 !.color = c,
                 !.half_color = Scaled(c, 4),
                 !.dim_color = Scaled(c, 10),
                 !.buf = Reshade(sparkle.buf, sparkle.half_color,
                                 sparkle.dim_color, Scaled(c, 4),
                                 Scaled(c, 10))]
    /\ UNCHANGED <<now, animState, callState, comet, chase, group, seq>>

SparkleSetAnyColor == \E c \in SparkleColors : SparkleSetColor(c)

\* Sparkle.draw() with the list `pixels`, here picks, that random.randint produced
SparkleDrawWith(picks) ==
    LET touched == UNION { {picks[k], picks[k] + 1} : k \in DOMAIN picks }
        inside == touched \subseteq 0..(sparkle.num_pixels - 1)
    IN  /\ sparkle.pc = "made"
        /\ sparkle' = [sparkle EXCEPT
                         !.chosen = picks,
                         !.written = touched,
                         !.fault = IF inside THEN "none" ELSE "IndexError",
                         !.buf = Fade(sparkle.buf, picks, 1,
                                      sparkle.half_color, sparkle.dim_color)]
        /\ UNCHANGED <<now, animState, callState, comet, chase, group, seq>>

SparkleDraw ==
    \E picks \in [1..sparkle.num_sparkles ->
                     SparkleChoices(sparkle.num_pixels)] :
        SparkleDrawWith(picks)

NextSparkle == SparkleNew \/ SparkleSetAnyColor \/ SparkleDraw

SpecSparkle == InitSparkle /\ [][NextSparkle]_vars

\* C15: the constructor fails with ValueError, leaving no animation, on a
\* buffer shorter than 2 pixels, and succeeds on a buffer of 2 or more.
C15_SparkleNeedsTwoPixels ==
    sparkle.pc # "args"
      => /\ sparkle.num_pixels < 2
              => (sparkle.pc = "failed" /\ sparkle.fault = "ValueError")
         /\ sparkle.num_pixels >= 2
              => (sparkle.pc = "made" /\ sparkle.fault # "ValueError")

\* a one-pixel buffer refused
C15_Witness ==
    /\ sparkle.pc = "failed"
    /\ sparkle.fault = "ValueError"
    /\ sparkle.num_pixels = 1

\* C16 as claimed: every chosen pixel index lies in [0, length - 2).
C16_ChosenBelowLengthMinus2 ==
    \A k \in DOMAIN sparkle.chosen :
        sparkle.chosen[k] \in 0..(sparkle.num_pixels - 3)

\* C16 amended: every chosen pixel index lies in [0, length - 2], so the
\* pixel after it is still inside the buffer.
C16_ChosenUpToLengthMinus2 ==
    \A k \in DOMAIN sparkle.chosen :
        /\ sparkle.chosen[k] \in 0..(sparkle.num_pixels - 2)
        /\ sparkle.chosen[k] + 1 \in 0..(sparkle.num_pixels - 1)

\* a frame that chose pixel length - 2
C16_Witness ==
    /\ sparkle.pc = "made"
    /\ sparkle.num_pixels = 3
    /\ \E k \in DOMAIN sparkle.chosen : sparkle.chosen[k] = 1

(***************************************************************************)
(* AnimationGroup.  `group` holds                                          *)
(*   sync         AnimationGroup._sync                                     *)
(*   members      member i at members[i], each a forward Chase with the    *)
(*                Animation fields speed_ns, paused, next_update,          *)
(*                time_left, its phase n and repeat width, and `frames`,   *)
(*                the number of draw() calls it has had                    *)
(* and, of the last call made on the group,                                *)
(*   called       the members whose animate() was called                   *)
(*   drew         per member, the draw() calls it had                      *)
(*   member_dones per member, the _cycle_done() calls its draw() made      *)
(*   signals      the AnimationGroup._cycle_done() calls                   *)
(***************************************************************************)
MemberIds == 0..(NumMembers - 1)

NewMember(i, speed) ==
    [speed_ns |-> speed, paused |-> FALSE, next_update |-> 0, time_left |-> 0,
     n |-> 0, width |-> i + 2, frames |-> 0]

\* AnimationGroup(*members, sync=sync)
NewGroup(sync, speeds) ==
    [made |-> TRUE, sync |-> sync,
     members |-> [i \in MemberIds |-> NewMember(i, speeds[i])],
     called |-> {}, drew |-> [i \in MemberIds |-> 0],
     member_dones |-> [i \in MemberIds |-> 0], signals |-> 0]

\* an any() that stops at the first member that fired
GroupCalledUntilFired(g) ==
    IF g.sync THEN {0}
    ELSE { i \in DOMAIN g.members :
             \A j \in DOMAIN g.members :
                j < i => ~Gate(g.members[j].paused, now, g.members[j].next_update) }

\* a synchronized group that forwards animate() to every member
GroupCalledAlways(g) == DOMAIN g.members

\* the members AnimationGroup.animate() calls animate() on
GroupCalled(g) == IF g.sync THEN {0} ELSE DOMAIN g.members

\* the peers AnimationGroup.__init__ gives member j
GroupPeers(g, j) ==
    IF g.sync /\ j = 0 THEN DOMAIN g.members \ {0} ELSE {}

\* a handler registered on the first member
GroupDoneSourceFirst(g) == 0

\* the member whose done_cycle_handler is the group's done_handler
GroupDoneSource(g) == NumMembers - 1

\* member j's animate() passes its gate
MemberFires(g, j) == Gate(g.members[j].paused, now, g.members[j].next_update)

\* the draw() calls member i gets in one AnimationGroup.animate()
DrawCount(g, i) ==
    Cardinality({ j \in GroupCalled(g) :
                    MemberFires(g, j) /\ (i = j \/ i \in GroupPeers(g, j)) })

\* the _cycle_done() calls of c consecutive draw() calls of a Chase at phase n
Wraps(n, c, width) ==
    Cardinality({ k \in 1..c :
                    ChaseWrapped(ChaseStep((n + k - 1) % width, 1, width),
                                 (n + k - 1) % width) })

InitGroup ==
    /\ group \in { NewGroup(sync, speeds) :
                     sync \in BOOLEAN,
                     speeds \in [MemberIds -> 1..MaxInterval] }
    /\ LeaderIdle
    /\ comet = NoComet
    /\ chase = NoChase
    /\ sparkle = NoSparkle
    /\ seq = NoSeq

GroupTick ==
    /\ group.made
    /\ now < GroupMaxTime
    /\ now' = now + 1
    /\ UNCHANGED <<animState, callState, comet, chase, sparkle, group, seq>>

\* AnimationGroup.animate()
GroupAnimate ==
    /\ group.made
    /\ \A i \in MemberIds : group.members[i].frames < MaxFrames
    /\ LET fired == { j \in GroupCalled(group) : MemberFires(group, j) }
           dones == [i \in MemberIds |->
                       Wraps(group.members[i].n, DrawCount(group, i),
                             group.members[i].width)]
       IN  /\ group' = [group EXCEPT
                 !.called = GroupCalled(group),
                 !.drew = [i \in MemberIds |-> DrawCount(group, i)],
                 !.member_dones = dones,
                 !.signals = dones[GroupDoneSource(group)],
                 !.members = [i \in MemberIds |->
                    LET m == group.members[i]
                    IN  [m EXCEPT
                           !.n = (m.n + DrawCount(group, i)) % m.width,
                           !.frames = m.frames + DrawCount(group, i),
                           !.next_update =
                              IF i \in fired
                              THEN NextDeadline(now, m.next_update, m.speed_ns)
                              ELSE m.next_update]]]
           /\ ret' = IF fired # {} THEN "True" ELSE "False"
    /\ parity' = 1 - parity
    /\ op' = "group_animate"
    /\ UNCHANGED <<now, animState, events, comet, chase, sparkle, seq>>

\* AnimationGroup.freeze()
GroupFreeze ==
    /\ group.made
    /\ group' = [group EXCEPT
         !.called = {}, !.drew = [i \in MemberIds |-> 0],
         !.member_dones = [i \in MemberIds |-> 0], !.signals = 0,
         !.members = [i \in MemberIds |->
            [group.members[i] EXCEPT
               !.paused = TRUE,
               !.time_left = TimeLeft(now, group.members[i].next_update)]]]
    /\ parity' = 1 - parity
    /\ op' = "group_freeze"
    /\ ret' = "None"
    /\ UNCHANGED <<now, animState, events, comet, chase, sparkle, seq>>

\* AnimationGroup.resume()
GroupResume ==
    /\ group.made
    /\ group' = [group EXCEPT
         !.called = {}, !.drew = [i \in MemberIds |-> 0],
         !.member_dones = [i \in MemberIds |-> 0], !.signals = 0,
         !.members = [i \in MemberIds |->
            [group.members[i] EXCEPT
               !.next_update = ResumeDeadline(now, group.members[i].time_left),
               !.time_left = 0,
               !.paused = FALSE]]]
    /\ parity' = 1 - parity
    /\ op' = "group_resume"
    /\ ret' = "None"
    /\ UNCHANGED <<now, animState, events, comet, chase, sparkle, seq>>

NextGroup == GroupTick \/ GroupAnimate \/ GroupFreeze \/ GroupResume

SpecGroup == InitGroup /\ [][NextGroup]_vars

\* C17: a non-synchronized group's animate() calls animate() on every
\* member, each member draws exactly when its own gate passes, and the call
\* returns True exactly when some member drew.
C17_GroupForwardsToEveryMember ==
    [][ (Call("group_animate") /\ ~group.sync)
          => /\ group'.called = MemberIds
             /\ \A i \in MemberIds :
                   group'.drew[i] =
                     (IF ~group.members[i].paused
                          /\ now >= group.members[i].next_update
                      THEN 1 ELSE 0)
             /\ (ret' = "True") <=> (\E i \in MemberIds : group'.drew[i] > 0) ]_vars

\* the second member fired in a call in which the first one did too
C17_Witness ==
    /\ ~group.sync
    /\ op = "group_animate" /\ ret = "True"
    /\ group.drew[0] = 1 /\ group.drew[1] = 1
    /\ group.members[0].frames # group.members[1].frames

\* C18: in a synchronized group every member draws in an animate() call
\* exactly when the first member's gate passes, so all members have had the
\* same number of frames, whatever their own intervals and deadlines.
C18_LeaderGatesTheGroup ==
    /\ [](group.sync
            => \A i \in MemberIds :
                  group.members[i].frames = group.members[0].frames)
    /\ [][ (Call("group_animate") /\ group.sync)
             => \A i \in MemberIds :
                   group'.drew[i] =
                     (IF ~group.members[0].paused
                          /\ now >= group.members[0].next_update
                      THEN 1 ELSE 0) ]_vars

\* a peer drawn with the leader although its own deadline was never moved
C18_Witness ==
    /\ group.sync
    /\ op = "group_animate" /\ ret = "True"
    /\ group.members[1].frames = 2
    /\ group.members[1].next_update = 0
    /\ group.members[0].speed_ns # group.members[1].speed_ns

SeqIds(q) == 0..(q.size - 1)

SeqName(i) == << "member", i >>

\* self._members[index]: the member a Python index selects, -1 if none
PyMember(q, i) ==
    IF i \in 0..(q.size - 1) THEN i
    ELSE IF i \in (-q.size)..(-1) THEN q.size + i
    ELSE -1

\* AnimationSequence(*members, advance_interval, auto_clear, random_order)
NewSeq(size, interval, auto_clear, random, first) ==
    [made |-> TRUE, size |-> size, current |-> first,
     advance_interval |-> interval, last_advance |-> 0, paused |-> FALSE,
     paused_at |-> 0, random |-> random, auto_clear |-> auto_clear,
     members |-> [i \in 0..(size - 1) |->
                    [speed_ns |-> 1, paused |-> FALSE,
                     next_update |-> 0, time_left |-> 0]],
     fault |-> "none", advanced |-> FALSE, forwarded |-> -1,
     presented |-> {}, signals |-> 0]

\* the observations of a call, cleared when the next call begins
SeqEnter(q) ==
    [q EXCEPT !.fault = "none", !.advanced = FALSE, !.forwarded = -1,
              !.presented = {}, !.signals = 0]

\* activate(index) for an int index: the fill of auto_clear goes through
\* current_animation, which raises IndexError for an index with no member
SeqActivated(q, i) ==
    LET q1 == [q EXCEPT !.current = i]
    IN  IF ~q.auto_clear THEN q1
        ELSE IF PyMember(q1, i) = -1 THEN [q1 EXCEPT !.fault = "IndexError"]
        ELSE [q1 EXCEPT !.presented = q1.presented \cup {PyMember(q1, i)}]

\* the test of next() that guards _cycle_done()
SeqWrapped(before, after) == before > after

\* next()
SeqAfterNext(q) ==
    LET q1 == SeqActivated(q, (q.current + 1) % q.size)
        wrapped == q1.fault = "none" /\ SeqWrapped(q.current, q1.current)
    IN  [q1 EXCEPT !.signals = IF wrapped THEN q1.signals + 1 ELSE q1.signals]

\* the test of _auto_advance()
AdvanceDue(q, t) ==
    q.advance_interval # 0 /\ t - q.last_advance > q.advance_interval

\* current_animation.animate()
SeqForward(q, t) ==
    LET i == PyMember(q, q.current)
    IN  IF i = -1 THEN [q EXCEPT !.fault = "IndexError"]
        ELSE IF ~Gate(q.members[i].paused, t, q.members[i].next_update)
        THEN [q EXCEPT !.forwarded = i]
        ELSE [q EXCEPT
                !.forwarded = i,
                !.presented = q.presented \cup {i},
                !.members[i].next_update =
                    NextDeadline(t, q.members[i].next_update,
                                 q.members[i].speed_ns)]

SeqFired(q0, q1) ==
    /\ q1.forwarded # -1
    /\ q1.members[q1.forwarded].next_update
         # q0.members[q1.forwarded].next_update

InitSeq ==
    /\ seq \in { NewSeq(size, interval, clear, random, first) :
                   size \in 1..MaxSeqMembers, interval \in 0..MaxAdvance,
                   clear \in BOOLEAN, random \in BOOLEAN,
                   first \in 0..(MaxSeqMembers - 1) }
    /\ seq.current < seq.size
    /\ ~seq.random => seq.current = 0
    /\ LeaderIdle
    /\ comet = NoComet
    /\ chase = NoChase
    /\ sparkle = NoSparkle
    /\ group = NoGroup

SeqTick ==
    /\ seq.made
    /\ now < SeqMaxTime
    /\ now' = now + 1
    /\ UNCHANGED <<animState, callState, comet, chase, sparkle, group, seq>>

SeqCall(name, result) ==
    /\ parity' = 1 - parity
    /\ op' = name
    /\ ret' = result
    /\ UNCHANGED <<now, animState, events, comet, chase, sparkle, group>>

\* AnimationSequence.activate(index) with an int
SeqActivateIndex(i) ==
    /\ seq.made
    /\ seq' = SeqActivated(SeqEnter(seq), i)
    /\ SeqCall("seq_activate", "None")

\* AnimationSequence.activate(index) with a str: list.index raises
\* ValueError for a name no member has
SeqActivateName(name) ==
    /\ seq.made
    /\ seq' = IF \E i \in SeqIds(seq) : SeqName(i) = name
              THEN SeqActivated(SeqEnter(seq),
                       CHOOSE i \in SeqIds(seq) :
                          /\ SeqName(i) = name
                          /\ \A j \in SeqIds(seq) : SeqName(j) = name => i <= j)
              ELSE [SeqEnter(seq) EXCEPT !.fault = "ValueError"]
    /\ SeqCall("seq_activate", "None")

SeqActivateAny ==
    \/ \E i \in (-1)..MaxSeqMembers : i <= seq.size /\ SeqActivateIndex(i)
    \/ \E i \in 0..MaxSeqMembers : i <= seq.size /\ SeqActivateName(SeqName(i))

\* AnimationSequence.next()
SeqNext ==
    /\ seq.made
    /\ seq' = SeqAfterNext(SeqEnter(seq))
    /\ SeqCall("seq_next", "None")

\* AnimationSequence.random()
SeqRandom ==
    /\ seq.made
    /\ \E r \in SeqIds(seq) : seq' = SeqActivated(SeqEnter(seq), r)
    /\ SeqCall("seq_random", "None")

\* AnimationSequence.animate()
SeqAnimate ==
    /\ seq.made
    /\ \E r \in SeqIds(seq) :
         LET q0 == SeqEnter(seq)
             due == ~q0.paused /\ AdvanceDue(q0, now)
             q1 == IF ~due THEN q0
                   ELSE LET q == [q0 EXCEPT !.last_advance = now,
                                            !.advanced = TRUE]
                        IN  IF q.random THEN SeqActivated(q, r)
                            ELSE SeqAfterNext(q)
             q2 == IF q1.fault # "none" THEN q1 ELSE SeqForward(q1, now)
         IN  /\ seq' = q2
             /\ SeqCall("seq_animate",
                        IF q2.fault # "none" THEN "raised"
                        ELSE IF SeqFired(q1, q2) THEN "True" ELSE "False")

\* AnimationSequence.freeze()
SeqFreeze ==
    /\ seq.made
    /\ LET q0 == SeqEnter(seq)
           i == PyMember(q0, q0.current)
       IN  seq' =
             IF q0.paused THEN q0
             ELSE LET q1 == [q0 EXCEPT !.paused = TRUE, !.paused_at = now]
                  IN  IF i = -1 THEN [q1 EXCEPT !.fault = "IndexError"]
                      ELSE [q1 EXCEPT
                              !.members[i].paused = TRUE,
                              !.members[i].time_left =
                                  TimeLeft(now, q0.members[i].next_update)]
    /\ SeqCall("seq_freeze", "None")

\* AnimationSequence.resume()
SeqResume ==
    /\ seq.made
    /\ LET q0 == SeqEnter(seq)
           i == PyMember(q0, q0.current)
       IN  seq' =
             IF ~q0.paused THEN q0
             ELSE LET q1 == [q0 EXCEPT
                               !.paused = FALSE,
                               !.last_advance =
                                   q0.last_advance + (now - q0.paused_at),
                               !.paused_at = 0]
                  IN  IF i = -1 THEN [q1 EXCEPT !.fault = "IndexError"]
                      ELSE [q1 EXCEPT
                              !.members[i].next_update =
                                  ResumeDeadline(now, q0.members[i].time_left),
                              !.members[i].time_left = 0,
                              !.members[i].paused = FALSE]
    /\ SeqCall("seq_resume", "None")

\* a sequence that is driven by activate(), next(), random() and animate()
NextSeq ==
    \/ SeqTick
    \/ SeqActivateAny
    \/ SeqNext
    \/ SeqRandom
    \/ SeqAnimate

SpecSeq == InitSeq /\ [][NextSeq]_vars

\* activate(index) with the index of a member
SeqActivateMember == \E i \in SeqIds(seq) : SeqActivateIndex(i)

\* a sequence that is paused and resumed as well, and whose activate() is
\* given member indices only
NextSeqPause ==
    \/ SeqTick
    \/ SeqActivateMember
    \/ SeqNext
    \/ SeqRandom
    \/ SeqAnimate
    \/ SeqFreeze
    \/ SeqResume

SpecSeqPause == InitSeq /\ [][NextSeqPause]_vars

\* C13 as claimed: every next() moves to (current + 1) mod N and signals
\* cycle-done exactly on the call that moves from index N - 1 to index 0, so
\* that N consecutive calls return to the starting index and signal once.
C13_NextSignalsOnWrap ==
    [][ (Call("seq_next") /\ seq.current \in SeqIds(seq))
          => /\ seq'.current = (seq.current + 1) % seq.size
             /\ seq'.signals = (IF seq.current = seq.size - 1 THEN 1 ELSE 0) ]_vars

\* C14 as claimed: the current index is always a member index.
C14_CurrentInRange == seq.current \in SeqIds(seq)

\* C20 as claimed: an animate() on an unpaused sequence whose advance
\* interval has elapsed changes the current index (where there is another
\* member to change to) and sets last_advance to now; animate() is then
\* forwarded to the member that is current after that and to no other, and
\* no other member draws or presents.
C20_AdvanceThenForward ==
    [][ Call("seq_animate")
          => /\ (~seq.paused /\ seq.advance_interval # 0
                   /\ now - seq.last_advance > seq.advance_interval
                   /\ seq.size > 1)
                  => /\ seq'.current # seq.current
                     /\ seq'.last_advance = now
             /\ seq'.forwarded \in {-1, PyMember(seq', seq'.current)}
             /\ seq'.presented \subseteq {PyMember(seq', seq'.current)} ]_vars

\* C21 as claimed: while the sequence is paused, animate() neither advances
\* it nor fires a member; freeze() records the clock value of the call and a
\* second freeze() leaves the record alone; resume() moves last_advance
\* forward by exactly the time spent paused, so the time left until the next
\* auto-advance is what it was at freeze().
C21_FrozenSequenceHolds ==
    [][ /\ (Call("seq_animate") /\ seq.paused)
             => /\ ~seq'.advanced
                /\ seq'.current = seq.current
                /\ seq'.last_advance = seq.last_advance
                /\ ret' # "True"
        /\ (Call("seq_freeze") /\ ~seq.paused) => seq'.paused_at = now
        /\ (Call("seq_freeze") /\ seq.paused) => seq'.paused_at = seq.paused_at
        /\ (Call("seq_resume") /\ seq.paused)
             => /\ seq'.last_advance = seq.last_advance + (now - seq.paused_at)
                /\ (seq'.last_advance + seq.advance_interval) - now
                     = (seq.last_advance + seq.advance_interval) - seq.paused_at
      ]_vars

\* C23 as claimed: whenever the sequence is not paused, no member is paused.
C23_NoMemberLeftFrozen ==
    (seq.made /\ ~seq.paused) => \A i \in SeqIds(seq) : ~seq.members[i].paused

(***************************************************************************)
(* Comet: the slice assignments of a frame                                 *)
(***************************************************************************)
\* the number of positions the slice lo:hi selects in a sequence of
\* num_pixels items, as slice.indices computes it
PySliceLen(num_pixels, lo, hi) ==
    LET clamp(i) == IF i < 0 THEN Max(0, i + num_pixels)
                    ELSE Min(i, num_pixels)
    IN  Max(0, clamp(hi) - clamp(lo))

\* C22 as claimed: with a tail_length of 1 up to the buffer length, every
\* frame of a forward or reversed sweep assigns to a slice inside the buffer
\* and assigns exactly as many colors as the slice has positions.
C22_WritesStayInBuffer ==
    (comet.pc = "sweep" /\ comet.tail_length \in 1..comet.num_pixels)
      => /\ 0 <= comet.write.lo
         /\ comet.write.lo <= comet.write.hi
         /\ comet.write.hi <= comet.num_pixels
         /\ comet.write.n
              = PySliceLen(comet.num_pixels, comet.write.lo, comet.write.hi)

(***************************************************************************)
(* Sparkle: the pixels a frame writes                                      *)
(***************************************************************************)
\* C24: every frame of a constructed Sparkle writes only pixels of the
\* buffer, at the chosen indices and at the index after each, and never
\* indexes outside it.
C24_SparkleWritesInsideBuffer ==
    sparkle.pc = "made"
      => /\ sparkle.num_pixels >= 2
         /\ sparkle.written \subseteq 0..(sparkle.num_pixels - 1)
         /\ sparkle.fault # "IndexError"
         /\ Len(sparkle.buf) = sparkle.num_pixels

\* a frame on the shortest buffer that wrote its last pixel, and a frame of
\* two sparkles that wrote the last pixel of a longer one
C24_Witness ==
    /\ sparkle.pc = "made"
    /\ sparkle.num_sparkles = 2
    /\ sparkle.num_pixels = 4
    /\ sparkle.written = {0, 1, 2, 3}
    /\ sparkle.buf[4] = sparkle.dim_color

====
